---- MODULE Spec2Model ----
(***************************************************************************)
(* Model of the measurement core of claude-nerf-detector: the prompt       *)
(* catalog, the suite runner (TestRunner.runSuite), the regression         *)
(* detector (detectRegressions / calculateStatus), the run store           *)
(* (NerfDatabase) and the triggers that start a suite (Scheduler cron       *)
(* tasks, Scheduler.runNow and POST /api/run).                              *)
(*                                                                         *)
(* Numbers.  The program computes with JavaScript doubles.  The model      *)
(* computes with exact rationals <<n, d>> (d > 0, lowest terms), so that   *)
(* a division, a mean or a threshold is the value the code's formula       *)
(* denotes.  An optional value (a TypeScript `x?: number`, a NULL column)   *)
(* is the empty tuple None or the one-element tuple Some(v).               *)
(***************************************************************************)
EXTENDS Integers, Sequences, FiniteSets, TLC

-----------------------------------------------------------------------------
(* Rationals *)

RECURSIVE Gcd(_, _)
Gcd(a, b) == IF b = 0 THEN a ELSE Gcd(b, a % b)

AbsInt(x) == IF x < 0 THEN -x ELSE x

\* n / d in lowest terms, d > 0
Rat(n, d) ==
  LET g == Gcd(AbsInt(n), d)
  IN  IF n = 0 THEN <<0, 1>> ELSE <<n \div g, d \div g>>

Num(n) == <<n, 1>>
Zero == <<0, 1>>

RAdd(a, b) == Rat(a[1] * b[2] + b[1] * a[2], a[2] * b[2])
RSub(a, b) == Rat(a[1] * b[2] - b[1] * a[2], a[2] * b[2])
RMul(a, b) == Rat(a[1] * b[1], a[2] * b[2])
RDivInt(a, k) == Rat(a[1], a[2] * k)
RLt(a, b) == a[1] * b[2] < b[1] * a[2]
RLe(a, b) == a[1] * b[2] <= b[1] * a[2]
RGt(a, b) == RLt(b, a)

None == <<>>
Some(v) == <<v>>
IsSome(o) == o # None
Val(o) == o[1]

-----------------------------------------------------------------------------
(* Prompt catalog *)

TEST_PROMPTS ==
  << [id |-> "P1", type |-> "correctness", replicates |-> 2, scoring |-> TRUE],
     [id |-> "P2", type |-> "correctness", replicates |-> 2, scoring |-> TRUE],
     [id |-> "P3", type |-> "correctness", replicates |-> 2, scoring |-> TRUE],
     [id |-> "P4", type |-> "performance", replicates |-> 3, scoring |-> FALSE],
     [id |-> "P5", type |-> "correctness", replicates |-> 2, scoring |-> TRUE] >>

PromptIds == {TEST_PROMPTS[i].id : i \in DOMAIN TEST_PROMPTS}

PromptById(id) == CHOOSE p \in {TEST_PROMPTS[i] : i \in DOMAIN TEST_PROMPTS} : p.id = id

RECURSIVE SumReplicates(_)
SumReplicates(k) == IF k = 0 THEN 0 ELSE TEST_PROMPTS[k].replicates + SumReplicates(k - 1)

\* number of endpoint calls of one suite
TotalReplicates == SumReplicates(Len(TEST_PROMPTS))

NumCorrectnessPrompts ==
  Cardinality({i \in DOMAIN TEST_PROMPTS : TEST_PROMPTS[i].type = "correctness"})

-----------------------------------------------------------------------------
(* Regression detector *)

FlagCodes == {"quality_regression", "performance_regression_tps",
              "performance_regression_latency", "output_cap_detected",
              "error_rate_increase"}

\* reading a property of a JavaScript object: undefined when the key is absent
Prop(obj, key) == IF key \in DOMAIN obj THEN obj[key] ELSE None

\* flags.push(f) when cond
PushIf(flags, cond, f) == IF cond THEN Append(flags, f) ELSE flags

\* mutant: the boundary mean - 2 itself no longer counts
QualityRule_Strict(current, sevenDay) ==
  /\ RGt(sevenDay.avgCorrectness, Zero)
  /\ RLt(current.correctnessScore, RSub(sevenDay.avgCorrectness, Num(2)))

QualityRule(current, sevenDay) ==
  /\ RGt(sevenDay.avgCorrectness, Zero)
  /\ RLe(current.correctnessScore, RSub(sevenDay.avgCorrectness, Num(2)))

\* mutant: exactly half the baseline counts as halved
TpsRule_Inclusive(current, sevenDay) ==
  /\ IsSome(Prop(current, "tokensPerSecMedian"))
  /\ RGt(sevenDay.avgTokensPerSecMedian, Zero)
  /\ RLe(Val(current.tokensPerSecMedian), RDivInt(sevenDay.avgTokensPerSecMedian, 2))

TpsRule(current, sevenDay) ==
  /\ IsSome(Prop(current, "tokensPerSecMedian"))
  /\ RGt(sevenDay.avgTokensPerSecMedian, Zero)
  /\ RLt(Val(current.tokensPerSecMedian), RDivInt(sevenDay.avgTokensPerSecMedian, 2))

LatencyRule(current, sevenDay) ==
  /\ IsSome(Prop(current, "latencyP95"))
  /\ RGt(sevenDay.avgTtftP95, Zero)
  /\ RGt(Val(current.latencyP95), RMul(sevenDay.avgTtftP95, Num(2)))

\* mutant: the baseline > 0 guard is missing
OutputCapRule_Unguarded(current, sevenDay) ==
  /\ IsSome(Prop(current, "outputTokensMedian"))
  /\ RLe(Val(current.outputTokensMedian), RMul(sevenDay.avgOutputTokens, Rat(3, 4)))

OutputCapRule(current, sevenDay) ==
  /\ IsSome(Prop(current, "outputTokensMedian"))
  /\ RGt(sevenDay.avgOutputTokens, Zero)
  /\ RLt(Val(current.outputTokensMedian), RMul(sevenDay.avgOutputTokens, Rat(3, 4)))

ErrorRateRule(current, sevenDay) ==
  RGt(current.errorRate, RAdd(sevenDay.avgErrorRate, Rat(1, 10)))

\* mutant: the error-rate rule is evaluated a second time and pushes again
detectRegressions_Repeats(current, sevenDay) ==
  LET f1 == PushIf(<<>>, QualityRule(current, sevenDay), "quality_regression")
      f2 == PushIf(f1, TpsRule(current, sevenDay), "performance_regression_tps")
      f3 == PushIf(f2, LatencyRule(current, sevenDay), "performance_regression_latency")
      f4 == PushIf(f3, OutputCapRule(current, sevenDay), "output_cap_detected")
      f5 == PushIf(f4, ErrorRateRule(current, sevenDay), "error_rate_increase")
  IN  PushIf(f5, ErrorRateRule(current, sevenDay), "error_rate_increase")

\* mutant: the rules are chained with else-if, the first that holds wins
detectRegressions_ElseIf(current, sevenDay) ==
  IF QualityRule(current, sevenDay) THEN <<"quality_regression">>
  ELSE IF TpsRule(current, sevenDay) THEN <<"performance_regression_tps">>
  ELSE IF LatencyRule(current, sevenDay) THEN <<"performance_regression_latency">>
  ELSE IF OutputCapRule(current, sevenDay) THEN <<"output_cap_detected">>
  ELSE IF ErrorRateRule(current, sevenDay) THEN <<"error_rate_increase">>
  ELSE <<>>

detectRegressions(current, sevenDay) ==
  LET f1 == PushIf(<<>>, QualityRule(current, sevenDay), "quality_regression")
      f2 == PushIf(f1, TpsRule(current, sevenDay), "performance_regression_tps")
      f3 == PushIf(f2, LatencyRule(current, sevenDay), "performance_regression_latency")
      f4 == PushIf(f3, OutputCapRule(current, sevenDay), "output_cap_detected")
      f5 == PushIf(f4, ErrorRateRule(current, sevenDay), "error_rate_increase")
  IN  f5

\* mutant: RED only above two flags
calculateStatus_RedAbove2(flags) ==
  IF Len(flags) > 2 THEN "RED"
  ELSE IF Len(flags) >= 1 THEN "YELLOW"
  ELSE "GREEN"

calculateStatus(flags) ==
  IF Len(flags) >= 2 THEN "RED"
  ELSE IF Len(flags) = 1 THEN "YELLOW"
  ELSE "GREEN"

-----------------------------------------------------------------------------
(* Endpoint client *)

\* What the code reads of an output text: the verdict of the prompt's scoring
\* function on it, and whether it includes 'I cannot' / 'I can\'t'.
Text(correct, cannot, cant) == [correct |-> correct, cannot |-> cannot, cant |-> cant]
EmptyText == Text(FALSE, FALSE, FALSE)

Includes(output, phrase) ==
  IF phrase = "I cannot" THEN output.cannot ELSE output.cant

\* prompt.scoring(response.output)
Scoring(prompt, output) == IF output.correct THEN 1 ELSE 0

\* One run of the streaming request: fail is an API or transport failure
\* (messages.create or the stream iteration throws); otherwise chunks content
\* chunks arrive, the first after firstAt seconds, and the stream ends after
\* elapsed seconds.
Stream(fail, text, chunks, firstAt, elapsed) ==
  [fail |-> fail, text |-> text, chunks |-> chunks, firstAt |-> firstAt,
   elapsed |-> elapsed]

\* crypto.SHA256(output).toString(), and the empty string ''
SHA256(text) == <<"sha256", text>>
EmptyString == <<>>

\* the text executePrompt sends: the prompt, with '[nonce: ...]' appended
\* when cacheBusting is set
finalPrompt(prompt, busting) ==
  [prompt |-> prompt.id, nonce |-> IF busting THEN Some("nonce") ELSE None]

executePrompt(stream) ==
  IF stream.fail
  THEN [output |-> EmptyText,
        metrics |-> [ttft |-> None, totalLatency |-> Num(stream.elapsed),
                     outputTokens |-> 0, tokensPerSec |-> Zero],
        outputHash |-> EmptyString,
        error |-> Some("error")]
  ELSE [output |-> stream.text,
        metrics |-> [ttft |-> IF stream.chunks > 0 THEN Some(Num(stream.firstAt)) ELSE None,
                     totalLatency |-> Num(stream.elapsed),
                     outputTokens |-> stream.chunks,
                     tokensPerSec |-> Rat(stream.chunks, stream.elapsed)],
        outputHash |-> SHA256(stream.text),
        error |-> None]

Pow2(i) == 2 ^ i

\* The for loop of executeWithRetry from attempt i on.  outcomes[i + 1] is how
\* the call of attempt i ends: "ok" (a response without error), "error" (a
\* response with error) or "throw".  waits are the seconds slept so far;
\* afterLast makes the sleep follow the last attempt too.
RECURSIVE RetryLoop(_, _, _, _, _)
RetryLoop(outcomes, maxRetries, i, waits, afterLast) ==
  IF i > maxRetries
  THEN [calls |-> i, waits |-> waits, returned |-> None,
        thrown |-> Some(IF i = 0 THEN <<"All retries failed", 0>> ELSE <<outcomes[i], i>>)]
  ELSE IF outcomes[i + 1] = "ok"
  THEN [calls |-> i + 1, waits |-> waits, returned |-> Some(i + 1), thrown |-> None]
  ELSE RetryLoop(outcomes, maxRetries, i + 1,
                 IF i < maxRetries \/ afterLast THEN Append(waits, Pow2(i)) ELSE waits,
                 afterLast)

\* mutant: the backoff sleep also follows the last attempt
executeWithRetry_SleepAfterLast(outcomes, maxRetries) ==
  RetryLoop(outcomes, maxRetries, 0, <<>>, TRUE)

\* returned: the attempt (from 1) whose response is returned; thrown: the
\* outcome and the attempt of the error thrown
executeWithRetry(outcomes, maxRetries) ==
  RetryLoop(outcomes, maxRetries, 0, <<>>, FALSE)

-----------------------------------------------------------------------------
(* Time.  The clock counts half days from day 0, 09:00: an even instant is  *)
(* 09:00 and an odd one 21:00 of day (t \div 2), the two default schedule   *)
(* times.                                                                   *)

HalfDaysPerDay == 2
WindowDays == 7

DateOf(t) == t \div HalfDaysPerDay
TimeOf(t) == t % HalfDaysPerDay

\* run.timestamp.toISOString(): 'YYYY-MM-DDTHH:MM:SS.sssZ'
toISOString(t) == [date |-> DateOf(t), sep |-> "T", time |-> TimeOf(t)]

\* SQLite datetime('now', '-7 days'): 'YYYY-MM-DD HH:MM:SS'
datetimeMinus7Days(now) ==
  [date |-> DateOf(now) - WindowDays, sep |-> " ", time |-> TimeOf(now)]

\* SQLite CURRENT_TIMESTAMP: 'YYYY-MM-DD HH:MM:SS'
CURRENT_TIMESTAMP(now) == [date |-> DateOf(now), sep |-> " ", time |-> TimeOf(now)]

\* new Date(text): the instant a timestamp text denotes
NewDate(text) == text.date * HalfDaysPerDay + text.time

\* the separators as characters: ' ' (0x20) sorts before 'T' (0x54)
CharCode(sep) == IF sep = " " THEN 32 ELSE 84

\* a >= b for two TEXT values of the column, compared as SQLite compares text
TextGe(a, b) ==
  \/ a.date > b.date
  \/ /\ a.date = b.date
     /\ \/ CharCode(a.sep) > CharCode(b.sep)
        \/ CharCode(a.sep) = CharCode(b.sep) /\ a.time >= b.time

-----------------------------------------------------------------------------
(* Persistence store *)

\* JSON.stringify of an array of strings, as the tokens of its text
RECURSIVE JSONitems(_)
JSONitems(arr) ==
  IF arr = <<>> THEN <<>>
  ELSE IF Len(arr) = 1 THEN <<<<"string", arr[1]>>>>
  ELSE <<<<"string", arr[1]>>, ",">> \o JSONitems(Tail(arr))

JSONstringify(arr) == <<"[">> \o JSONitems(arr) \o <<"]">>

\* JSON.parse of such a text: the strings between the brackets, in order
JSONparse(text) ==
  LET inner == SubSeq(text, 2, Len(text) - 1)
  IN  [i \in 1..((Len(inner) + 1) \div 2) |-> inner[2 * i - 1][2]]

\* The row insertRun writes: an undefined property is bound as NULL.
RunRow(id, run, now) ==
  [id |-> id,
   timestamp |-> toISOString(run.timestamp),
   suite_version |-> run.suite_version,
   correctness_score |-> run.correctness_score,
   ttft_median |-> Prop(run, "ttft_median"),
   ttft_p95 |-> Prop(run, "ttft_p95"),
   latency_median |-> Prop(run, "latency_median"),
   latency_p95 |-> Prop(run, "latency_p95"),
   tokens_per_sec_median |-> Prop(run, "tokens_per_sec_median"),
   tokens_per_sec_p95 |-> Prop(run, "tokens_per_sec_p95"),
   output_tokens_median |-> Prop(run, "output_tokens_median"),
   error_rate |-> run.error_rate,
   refusal_rate |-> run.refusal_rate,
   status |-> run.status,
   flags |-> JSONstringify(run.flags),
   created_at |-> CURRENT_TIMESTAMP(now)]

\* the id of the row insertRun / insertTestCase adds: fresh in its table
NewId(table) == Len(table) + 1

\* mutant: the new row takes the place of the rows of the table
insertRun_Replace(table, run, now) == <<RunRow(NewId(table), run, now)>>

insertRun(table, run, now) == Append(table, RunRow(NewId(table), run, now))

\* mapRun: the row, with the two dates parsed, the flags parsed, and
\* success: row.success === 1 (runs has no such column)
mapRun(row) ==
  [k \in DOMAIN row \cup {"success"} |->
     IF k = "timestamp" THEN NewDate(row.timestamp)
     ELSE IF k = "created_at" THEN NewDate(row.created_at)
     ELSE IF k = "flags" THEN JSONparse(row.flags)
     ELSE IF k = "success" THEN FALSE
     ELSE row[k]]

\* SELECT * FROM runs WHERE id = ?: the run, or null
getRunById(table, id) ==
  LET found == SelectSeq(table, LAMBDA r : r.id = id)
  IN  IF found = <<>> THEN None ELSE Some(mapRun(found[1]))

\* the orders ORDER BY timestamp DESC can return the rows of table in, as
\* permutations of its positions: the TEXT values descend, and rows of equal
\* timestamp come in either order
DescendingOrders(table) ==
  {f \in [DOMAIN table -> DOMAIN table] :
     /\ \A a, b \in DOMAIN table : f[a] = f[b] => a = b
     /\ \A a, b \in DOMAIN table :
          a < b => TextGe(table[f[a]].timestamp, table[f[b]].timestamp)}

\* mutant: ORDER BY timestamp ASC
getRecentRuns_Ascending(table, limit) ==
  {[k \in 1..(IF limit < Len(table) THEN limit ELSE Len(table)) |-> mapRun(table[f[k]])] :
     f \in {g \in [DOMAIN table -> DOMAIN table] :
              /\ \A a, b \in DOMAIN table : g[a] = g[b] => a = b
              /\ \A a, b \in DOMAIN table :
                   a < b => TextGe(table[g[b]].timestamp, table[g[a]].timestamp)}}

\* SELECT * FROM runs ORDER BY timestamp DESC LIMIT limit, each row through
\* mapRun: the arrays the query can return, for a limit >= 0
getRecentRuns(table, limit) ==
  {[k \in 1..(IF limit < Len(table) THEN limit ELSE Len(table)) |-> mapRun(table[f[k]])] :
     f \in DescendingOrders(table)}

\* GET /api/status: the bodies the handler can answer with
GetApiStatus(table) ==
  {IF Len(rs) = 0
   THEN [status |-> "UNKNOWN", message |-> "No runs found", lastRun |-> None]
   ELSE [status |-> rs[1].status, lastRun |-> Some(rs[1].timestamp),
         correctnessScore |-> rs[1].correctness_score, flags |-> rs[1].flags,
         runId |-> rs[1].id] : rs \in getRecentRuns(table, 1)}

insertTestCase(table, testCase) == Append(table, [id |-> NewId(table)] @@ testCase)

RECURSIVE SumRat(_)
SumRat(s) == IF s = <<>> THEN Zero ELSE RAdd(Head(s), SumRat(Tail(s)))

\* SQL AVG over the non-NULL values of a column (optional values, in row order):
\* NULL when there is none
\* mutant: a NULL counts as a 0 in the mean
Avg_NullAsZero(vals) ==
  LET nums == [i \in DOMAIN vals |-> IF IsSome(vals[i]) THEN Val(vals[i]) ELSE Zero]
  IN  IF vals = <<>> THEN None ELSE Some(RDivInt(SumRat(nums), Len(nums)))

\* AVG(column): the mean of the values that are not NULL, NULL when there is none
Avg(vals) ==
  LET present == SelectSeq(vals, IsSome)
      nums == [i \in DOMAIN present |-> Val(present[i])]
  IN  IF present = <<>> THEN None ELSE Some(RDivInt(SumRat(nums), Len(nums)))

\* row.x || 0
OrZero(o) == IF IsSome(o) THEN Val(o) ELSE Zero

\* the rows of WHERE timestamp >= datetime('now', '-7 days')
WindowRows(table, now) ==
  SelectSeq(table, LAMBDA r : TextGe(r.timestamp, datetimeMinus7Days(now)))

Column(rows, col) == [i \in DOMAIN rows |-> rows[i][col]]
ColumnSome(rows, col) == [i \in DOMAIN rows |-> Some(rows[i][col])]

\* AVG(column) over rows, for every numeric column of runs
MeansOf(rows) ==
  [correctness_score |-> Avg(ColumnSome(rows, "correctness_score")),
   ttft_median |-> Avg(Column(rows, "ttft_median")),
   ttft_p95 |-> Avg(Column(rows, "ttft_p95")),
   latency_median |-> Avg(Column(rows, "latency_median")),
   latency_p95 |-> Avg(Column(rows, "latency_p95")),
   tokens_per_sec_median |-> Avg(Column(rows, "tokens_per_sec_median")),
   tokens_per_sec_p95 |-> Avg(Column(rows, "tokens_per_sec_p95")),
   output_tokens_median |-> Avg(Column(rows, "output_tokens_median")),
   error_rate |-> Avg(ColumnSome(rows, "error_rate"))]

\* the means over the window
WindowMeans(table, now) == MeansOf(WindowRows(table, now))

\* the seven means the SELECT of getSevenDayStats asks for, each `|| 0`
SelectStats(avg) ==
  [avgCorrectness |-> OrZero(avg.correctness_score),
   avgTtftMedian |-> OrZero(avg.ttft_median),
   avgTtftP95 |-> OrZero(avg.ttft_p95),
   avgTokensPerSecMedian |-> OrZero(avg.tokens_per_sec_median),
   avgTokensPerSecP95 |-> OrZero(avg.tokens_per_sec_p95),
   avgOutputTokens |-> OrZero(avg.output_tokens_median),
   avgErrorRate |-> OrZero(avg.error_rate)]

getSevenDayStats(table, now) == SelectStats(WindowMeans(table, now))

\* table config: a row per key; getConfig returns null when there is no row
getConfig(table, key) == IF key \in DOMAIN table THEN Some(table[key]) ELSE None

\* INSERT ... ON CONFLICT(key) DO UPDATE SET value = excluded.value
setConfig(table, key, value) ==
  [k \in DOMAIN table \cup {key} |-> IF k = key THEN value ELSE table[k]]

-----------------------------------------------------------------------------
(* Suite runner: aggregation *)

TEST_SUITE_VERSION == "1.0.0"

Max(a, b) == IF a >= b THEN a ELSE b

RECURSIVE MaxOf(_)
MaxOf(s) == IF Len(s) = 1 THEN s[1] ELSE Max(s[1], MaxOf(Tail(s)))

\* mutant: the scores of the replicates are added up
calculateCorrectnessScore_Sum(results) ==
  LET correctnessResults ==
        SelectSeq(results, LAMBDA r : PromptById(r.promptId).type = "correctness")
      RECURSIVE total(_)
      total(rs) == IF rs = <<>> THEN 0 ELSE Head(rs).score + total(Tail(rs))
  IN  total(correctnessResults)

calculateCorrectnessScore(results) ==
  LET correctnessResults ==
        SelectSeq(results, LAMBDA r : PromptById(r.promptId).type = "correctness")
      keys == {correctnessResults[i].promptId : i \in DOMAIN correctnessResults}
      scoresOf(id) ==
        LET rs == SelectSeq(correctnessResults, LAMBDA r : r.promptId = id)
        IN  [i \in DOMAIN rs |-> rs[i].score]
      RECURSIVE total(_)
      total(ids) ==
        IF ids = {} THEN 0
        ELSE LET id == CHOOSE x \in ids : TRUE
             IN  MaxOf(scoresOf(id)) + total(ids \ {id})
  IN  total(keys)

\* mutant: an even length takes the upper middle element
median_UpperMiddle(arr) ==
  IF Len(arr) = 0 THEN None ELSE Some(arr[Len(arr) \div 2 + 1])

\* arr is sorted ascending
median(arr) ==
  LET mid == Len(arr) \div 2
  IN  IF Len(arr) = 0 THEN None
      ELSE IF Len(arr) % 2 = 1 THEN Some(arr[mid + 1])
      ELSE Some(RDivInt(RAdd(arr[mid], arr[mid + 1]), 2))

Min(a, b) == IF a <= b THEN a ELSE b

\* Math.ceil((p / 100) * n)
CeilPct(p, n) == (p * n + 99) \div 100

percentile(arr, p) ==
  LET index == CeilPct(p, Len(arr)) - 1
  IN  IF Len(arr) = 0 THEN None ELSE Some(arr[Min(index, Len(arr) - 1) + 1])

SortAsc(s) == SortSeq(s, RLt)

calculatePerformanceMetrics(results) ==
  LET p4Results == SelectSeq(results, LAMBDA r : r.promptId = "P4")
      withTtft == SelectSeq(p4Results, LAMBDA r : IsSome(r.response.metrics.ttft))
      ttfts == SortAsc([i \in DOMAIN withTtft |-> Val(withTtft[i].response.metrics.ttft)])
      all(field) == [i \in DOMAIN p4Results |-> p4Results[i].response.metrics[field]]
      positive(s) == SelectSeq(s, LAMBDA t : RGt(t, Zero))
      latencies == SortAsc(positive(all("totalLatency")))
      tokensPerSec == SortAsc(positive(all("tokensPerSec")))
      tokens == all("outputTokens")
      outputTokens == SortAsc(positive([i \in DOMAIN tokens |-> Num(tokens[i])]))
  IN  IF Len(p4Results) = 0 THEN <<>>
      ELSE [ttft_median |-> median(ttfts),
            ttft_p95 |-> percentile(ttfts, 95),
            latency_median |-> median(latencies),
            latency_p95 |-> percentile(latencies, 95),
            tokens_per_sec_median |-> median(tokensPerSec),
            tokens_per_sec_p95 |-> percentile(tokensPerSec, 95),
            output_tokens_median |-> median(outputTokens)]

-----------------------------------------------------------------------------
(* State *)

VARIABLES
  now,        \* the wall clock, in half days
  runs,       \* table runs, in insertion order
  testCases,  \* table test_cases, in insertion order
  suites,     \* the runSuite calls made so far, in the order they were started
  endpointUp, \* the model endpoint is reachable
  faults,     \* deviations so far: an outage, one odd call, or a failed write
  alive,      \* the process that runs the suites is alive
  storeRawOutputs,  \* process.env.STORE_RAW_OUTPUTS === 'true'
  cacheBusting,     \* process.env.CACHE_BUSTING === 'true'
  config,     \* table config
  test_runs,     \* submission store: table test_runs
  test_details,  \* submission store: table test_details
  cur,        \* detector check: the CurrentMetrics passed to detectRegressions
  win,        \* detector check: the mean of each column of runs over the window
  dflags,     \* detector check: the flags detectRegressions returned
  dstatus,    \* detector check: calculateStatus of those flags
  arg,        \* function check: the arguments of the function applied
  ret         \* function check: what it returned, None before the call

vars == <<now, runs, testCases, suites, endpointUp, faults, alive, storeRawOutputs,
         cacheBusting, config, test_runs, test_details, cur, win, dflags, dstatus, arg, ret>>
storeVars == <<runs, testCases>>
detectVars == <<cur, win, dflags, dstatus, arg, ret>>
systemVars == <<now, runs, testCases, suites, endpointUp, faults, alive, storeRawOutputs,
                cacheBusting, config>>
envVars == <<storeRawOutputs, cacheBusting, config>>
submitVars == <<test_runs, test_details>>

\* the environments explored, as <<STORE_RAW_OUTPUTS, CACHE_BUSTING>>: the
\* two toggles unset, and both set to 'true'
Environments == {<<FALSE, FALSE>>, <<TRUE, TRUE>>}

\* bounds of the exploration
MaxStarts == 2
MaxFaults == 1
MaxNow == 16

\* SCHEDULE_TIMES default '09:00,21:00', as the time of day of the clock
scheduleTimes == {0, 1}

\* the steps of the clock: 7 days and a half, and 8 days
TickSteps == {15, 16}

-----------------------------------------------------------------------------
(* Endpoint behaviours explored *)

GoodText == Text(TRUE, FALSE, FALSE)

NominalStream(prompt) ==
  IF prompt.type = "performance"
  THEN Stream(FALSE, GoodText, 8, 1, 4)
  ELSE Stream(FALSE, GoodText, 4, 1, 2)

FailedStreams == {Stream(TRUE, EmptyText, 0, 0, el) : el \in {0, 1}}

\* a call made while the endpoint is unreachable
OutageStream == Stream(TRUE, EmptyText, 0, 0, 1)

OtherStreams(prompt) ==
  IF prompt.type = "performance"
  THEN {Stream(FALSE, GoodText, 8, 2, 16),   \* slow
        Stream(FALSE, GoodText, 4, 1, 4),    \* short output
        Stream(FALSE, EmptyText, 0, 0, 1)}   \* no content chunk
  ELSE {Stream(FALSE, Text(FALSE, FALSE, FALSE), 4, 1, 2),   \* wrong answer
        Stream(FALSE, Text(FALSE, TRUE, FALSE), 4, 1, 2),    \* 'I cannot ...'
        Stream(FALSE, Text(FALSE, FALSE, TRUE), 4, 1, 2),    \* 'I can't ...'
        Stream(FALSE, Text(TRUE, FALSE, TRUE), 4, 1, 2)}     \* right, with 'I can't'

Streams(prompt) == {NominalStream(prompt)} \cup FailedStreams \cup OtherStreams(prompt)

-----------------------------------------------------------------------------
(* Suite runner: runSuite *)

\* runSuite up to its first await: the locals, and the first call under way
NewSuite(t) ==
  [pc |-> "calling", timestamp |-> t, cacheBusting |-> cacheBusting,
   pIdx |-> 1, rep |-> 1, testResults |-> <<>>,
   totalErrors |-> 0, totalRefusals |-> 0, totalTests |-> 1,
   endedAt |-> None, result |-> None]

\* mutant: every replicate that did not succeed counts as a refusal
AfterResponse_RefusalIfFailed(e, response) ==
  LET prompt == TEST_PROMPTS[e.pIdx]
      isError == IsSome(response.error)
      scored == ~isError /\ prompt.type = "correctness" /\ prompt.scoring
      score == IF scored THEN Scoring(prompt, response.output) ELSE 0
      success == IF isError THEN FALSE ELSE IF scored THEN score = 1 ELSE TRUE
  IN  [e EXCEPT
        !.totalErrors = IF isError THEN @ + 1 ELSE @,
        !.totalRefusals = IF ~success THEN @ + 1 ELSE @,
        !.testResults = Append(@, [promptId |-> prompt.id, replicateNumber |-> e.rep,
                                   response |-> response, score |-> score,
                                   success |-> success]),
        !.pc = "delay"]

\* the try block after executePrompt has returned response
AfterResponse(e, response) ==
  LET prompt == TEST_PROMPTS[e.pIdx]
      isError == IsSome(response.error)
      scored == ~isError /\ prompt.type = "correctness" /\ prompt.scoring
      score == IF scored THEN Scoring(prompt, response.output) ELSE 0
      success == IF isError THEN FALSE ELSE IF scored THEN score = 1 ELSE TRUE
      refusal == /\ scored
                 /\ \/ ~success /\ Includes(response.output, "I cannot")
                    \/ Includes(response.output, "I can't")
  IN  [e EXCEPT
        !.totalErrors = IF isError THEN @ + 1 ELSE @,
        !.totalRefusals = IF refusal THEN @ + 1 ELSE @,
        !.testResults = Append(@, [promptId |-> prompt.id, replicateNumber |-> e.rep,
                                   response |-> response, score |-> score,
                                   success |-> success]),
        !.pc = "delay"]

\* mutant: the catch block counts the error and records no result
AfterThrow_NoResult(e) == [e EXCEPT !.totalErrors = @ + 1]

\* the catch block
AfterThrow(e) ==
  [e EXCEPT
    !.totalErrors = @ + 1,
    !.testResults =
       Append(@, [promptId |-> TEST_PROMPTS[e.pIdx].id, replicateNumber |-> e.rep,
                  response |-> [output |-> EmptyText,
                                metrics |-> [ttft |-> None, totalLatency |-> Zero,
                                             outputTokens |-> 0, tokensPerSec |-> Zero],
                                outputHash |-> EmptyString,
                                error |-> Some("thrown")],
                  score |-> 0, success |-> FALSE])]

\* the two for loops have another iteration to make
MoreCalls(e) ==
  e.rep < TEST_PROMPTS[e.pIdx].replicates \/ e.pIdx < Len(TEST_PROMPTS)

\* the next iteration, up to its await of executePrompt
NextCall(e) ==
  IF e.rep < TEST_PROMPTS[e.pIdx].replicates
  THEN [e EXCEPT !.rep = @ + 1, !.totalTests = @ + 1, !.pc = "calling"]
  ELSE [e EXCEPT !.pIdx = @ + 1, !.rep = 1, !.totalTests = @ + 1, !.pc = "calling"]

\* what runSuite computes after the loops
Summary(e, table, t) ==
  LET correctnessScore == calculateCorrectnessScore(e.testResults)
      performanceMetrics == calculatePerformanceMetrics(e.testResults)
      errorRate == Rat(e.totalErrors, e.totalTests)
      refusalRate == Rat(e.totalRefusals, e.totalTests)
      sevenDayStats == getSevenDayStats(table, t)
      flags == detectRegressions(
                 [correctnessScore |-> Num(correctnessScore), errorRate |-> errorRate]
                   @@ performanceMetrics,
                 sevenDayStats)
      status == calculateStatus(flags)
  IN  [correctnessScore |-> correctnessScore,
       performanceMetrics |-> performanceMetrics,
       errorRate |-> errorRate, refusalRate |-> refusalRate,
       sevenDayStats |-> sevenDayStats,
       status |-> status, flags |-> flags]

\* the object runSuite passes to insertRun
RunOf(e, s) ==
  [timestamp |-> e.timestamp, suite_version |-> TEST_SUITE_VERSION,
   correctness_score |-> Num(s.correctnessScore),
   error_rate |-> s.errorRate, refusal_rate |-> s.refusalRate,
   status |-> s.status, flags |-> s.flags] @@ s.performanceMetrics

\* mutant: the output text is stored whatever the flag says
TestCaseOf_AlwaysRaw(runId, result, storeRaw) ==
  [run_id |-> runId, prompt_id |-> result.promptId,
   replicate_number |-> result.replicateNumber,
   success |-> result.success, score |-> result.score,
   ttft |-> result.response.metrics.ttft,
   total_latency |-> result.response.metrics.totalLatency,
   output_tokens |-> result.response.metrics.outputTokens,
   tokens_per_sec |-> result.response.metrics.tokensPerSec,
   output_hash |-> result.response.outputHash,
   raw_output |-> Some(result.response.output),
   error_message |-> result.response.error]

\* the object runSuite passes to insertTestCase
TestCaseOf(runId, result, storeRaw) ==
  [run_id |-> runId, prompt_id |-> result.promptId,
   replicate_number |-> result.replicateNumber,
   success |-> result.success, score |-> result.score,
   ttft |-> result.response.metrics.ttft,
   total_latency |-> result.response.metrics.totalLatency,
   output_tokens |-> result.response.metrics.outputTokens,
   tokens_per_sec |-> result.response.metrics.tokensPerSec,
   output_hash |-> result.response.outputHash,
   raw_output |-> IF storeRaw THEN Some(result.response.output) ELSE None,
   error_message |-> result.response.error]

\* mutant: the results with an endpoint error get no row
InsertTestCases_SkipsErrors(table, runId, results) ==
  LET kept == SelectSeq(results, LAMBDA r : ~IsSome(r.response.error))
  IN  table \o [k \in DOMAIN kept |->
                  [id |-> Len(table) + k] @@ TestCaseOf(runId, kept[k], storeRawOutputs)]

RECURSIVE InsertTestCases(_, _, _)
InsertTestCases(table, runId, results) ==
  IF results = <<>> THEN table
  ELSE InsertTestCases(
         insertTestCase(table, TestCaseOf(runId, Head(results), storeRawOutputs)),
         runId, Tail(results))

\* runSuite has returned, or has rejected
Ended(e) == e.pc \in {"done", "failed"}

\* runSuite from the end of the loops to its return: no await in between
Finish(i, e) ==
  LET s == Summary(e, runs, now)
      runId == NewId(runs)
  IN  /\ runs' = insertRun(runs, RunOf(e, s), now)
      /\ testCases' = InsertTestCases(testCases, runId, e.testResults)
      /\ suites' = [suites EXCEPT ![i] =
                      [e EXCEPT !.pc = "done", !.endedAt = Some(now),
                                !.result = Some([runId |-> runId] @@ s)]]

\* the statements of the persistence block after which a write can throw:
\* none (insertRun throws), insertRun (the first insertTestCase throws), or
\* all but the last insertTestCase
PersistFailPoints == {0, 1, TotalReplicates}

\* mutant: the failure of a write is swallowed; the test cases are inserted
\* whether or not the run row was
FinishFails_Orphans(i, e, k) ==
  /\ runs' = runs
  /\ testCases' = InsertTestCases(testCases, NewId(runs), e.testResults)
  /\ suites' = [suites EXCEPT ![i] = [e EXCEPT !.pc = "failed", !.endedAt = Some(now)]]

\* insertRun or insertTestCase throws after k writes have succeeded: runSuite
\* rejects, and what it has written stays
FinishFails(i, e, k) ==
  LET s == Summary(e, runs, now)
      runId == NewId(runs)
  IN  /\ runs' = IF k = 0 THEN runs ELSE insertRun(runs, RunOf(e, s), now)
      /\ testCases' = IF k = 0 THEN testCases
                      ELSE InsertTestCases(testCases, runId, SubSeq(e.testResults, 1, k - 1))
      /\ suites' = [suites EXCEPT ![i] = [e EXCEPT !.pc = "failed", !.endedAt = Some(now)]]

\* mutant: the rejection of runSuite is not caught and ends the process
CatchAndLog_Unhandled(a) == FALSE

\* the catch around runSuite in the cron callback, in runNow and in
\* POST /api/run: the error is logged and the process goes on
CatchAndLog(a) == a

\* The loops go on after an iteration, or runSuite persists and returns.
\* used is the number of deviations the iteration itself has counted.
Continue(i, e, used) ==
  IF MoreCalls(e)
  THEN /\ suites' = [suites EXCEPT ![i] = NextCall(e)]
       /\ faults' = faults + used
       /\ UNCHANGED <<runs, testCases, alive>>
  ELSE \/ /\ Finish(i, e)
          /\ faults' = faults + used
          /\ UNCHANGED alive
       \/ /\ faults + used < MaxFaults
          /\ \E k \in PersistFailPoints : FinishFails(i, e, k)
          /\ faults' = faults + used + 1
          /\ alive' = CatchAndLog(alive)

-----------------------------------------------------------------------------
(* Actions *)

\* a call of runSuite, whoever makes it
StartSuite ==
  /\ alive
  /\ Len(suites) < MaxStarts
  /\ suites' = Append(suites, NewSuite(now))
  /\ UNCHANGED <<now, runs, testCases, endpointUp, faults, alive, envVars, detectVars, submitVars>>

\* a cron task of Scheduler.start fires at its time of day
CronFire(time) ==
  /\ TimeOf(now) = time
  /\ StartSuite

\* Scheduler.runNow
RunNow == StartSuite

\* POST /api/run
PostApiRun == StartSuite

\* the awaited executePrompt returns
CallReturns(i, stream) ==
  /\ suites[i].pc = "calling"
  /\ stream \in Streams(TEST_PROMPTS[suites[i].pIdx])
  /\ IF endpointUp
     THEN LET nominal == stream = NominalStream(TEST_PROMPTS[suites[i].pIdx])
          IN  /\ nominal \/ faults < MaxFaults
              /\ faults' = IF nominal THEN faults ELSE faults + 1
     ELSE stream = OutageStream /\ UNCHANGED faults
  /\ suites' = [suites EXCEPT ![i] = AfterResponse(@, executePrompt(stream))]
  /\ UNCHANGED <<now, runs, testCases, endpointUp, alive, envVars, detectVars, submitVars>>

\* a statement of the try block throws
CallThrows(i) ==
  /\ suites[i].pc = "calling"
  /\ faults < MaxFaults
  /\ Continue(i, AfterThrow(suites[i]), 1)
  /\ UNCHANGED <<now, endpointUp, envVars, detectVars, submitVars>>

\* the text sent by the endpoint call in flight of a suite
Dispatched(e) == finalPrompt(TEST_PROMPTS[e.pIdx], e.cacheBusting)

\* the pacing delay of one second is over
DelayElapsed(i) ==
  /\ suites[i].pc = "delay"
  /\ Continue(i, suites[i], 0)
  /\ UNCHANGED <<now, endpointUp, envVars, detectVars, submitVars>>

\* The clock advances.  A suite lasts minutes and the clock counts half days,
\* from the half day of the first call of runSuite: it does not advance while
\* a suite is in flight.
Tick(d) ==
  /\ suites # <<>>
  /\ \A i \in DOMAIN suites : Ended(suites[i])
  /\ now + d <= MaxNow
  /\ now' = now + d
  /\ UNCHANGED <<runs, testCases, suites, endpointUp, faults, alive, envVars, detectVars, submitVars>>

\* the endpoint becomes unreachable while a suite is calling it
OutageBegins ==
  /\ endpointUp
  /\ faults < MaxFaults
  /\ \E i \in DOMAIN suites : ~Ended(suites[i])
  /\ endpointUp' = FALSE
  /\ faults' = faults + 1
  /\ UNCHANGED <<now, runs, testCases, suites, alive, envVars, detectVars, submitVars>>

\* the endpoint is reachable again: an outage outlasts the suites it hits,
\* which take minutes
OutageEnds ==
  /\ ~endpointUp
  /\ \A i \in DOMAIN suites : Ended(suites[i])
  /\ endpointUp' = TRUE
  /\ UNCHANGED <<now, runs, testCases, suites, faults, alive, envVars, detectVars, submitVars>>

\* the request bodies of PUT /api/config explored
ConfigUpdates == {[cacheBusting |-> TRUE, storeRawOutputs |-> TRUE]}

\* String(value) of a boolean
String(b) == IF b THEN "true" ELSE "false"

\* config.key = value when the body defines field
SetIfDefined(table, updates, field, key) ==
  IF field \in DOMAIN updates THEN setConfig(table, key, String(updates[field])) ELSE table

\* mutant: the handler also empties the table of runs
PutApiConfig_ClearsRuns(updates) ==
  /\ alive
  /\ config' = SetIfDefined(SetIfDefined(config, updates, "cacheBusting", "cache_busting"),
                            updates, "storeRawOutputs", "store_raw_outputs")
  /\ runs' = <<>>
  /\ UNCHANGED <<now, testCases, suites, endpointUp, faults, alive, storeRawOutputs,
                 cacheBusting, detectVars, submitVars>>

\* PUT /api/config
PutApiConfig(updates) ==
  /\ alive
  /\ config' = SetIfDefined(SetIfDefined(config, updates, "cacheBusting", "cache_busting"),
                            updates, "storeRawOutputs", "store_raw_outputs")
  /\ UNCHANGED <<now, runs, testCases, suites, endpointUp, faults, alive, storeRawOutputs,
                 cacheBusting, detectVars, submitVars>>

Init ==
  /\ now = 0
  /\ runs = <<>>
  /\ testCases = <<>>
  /\ suites = <<>>
  /\ endpointUp = TRUE
  /\ faults = 0
  /\ alive = TRUE
  /\ \E env \in Environments : storeRawOutputs = env[1] /\ cacheBusting = env[2]
  /\ config = <<>>
  /\ test_runs = <<>>
  /\ test_details = <<>>
  /\ cur = <<>>
  /\ win = <<>>
  /\ dflags = <<>>
  /\ dstatus = "NOT_RUN"
  /\ arg = <<>>
  /\ ret = None

Next ==
  \/ \E time \in scheduleTimes : CronFire(time)
  \/ RunNow
  \/ PostApiRun
  \/ \E i \in DOMAIN suites :
       \E stream \in Streams(TEST_PROMPTS[suites[i].pIdx]) : CallReturns(i, stream)
  \/ \E i \in DOMAIN suites : CallThrows(i)
  \/ \E i \in DOMAIN suites : DelayElapsed(i)
  \/ \E d \in TickSteps : Tick(d)
  \/ OutageBegins
  \/ OutageEnds
  \/ \E updates \in ConfigUpdates : PutApiConfig(updates)

Spec == Init /\ [][Next]_vars

-----------------------------------------------------------------------------
(* The store under whole suite runs: each step is a runSuite from its first *)
(* call to its return, so that a suite that started earlier can persist     *)
(* after one that started later.                                            *)

MaxRows == 3
MaxLimit == 3

\* how the endpoint behaves during a suite
Behaviours == {"nominal", "slow", "outage"}

BehaviourStream(kind, prompt) ==
  IF kind = "outage" THEN OutageStream
  ELSE IF kind = "slow" /\ prompt.type = "performance"
       THEN Stream(FALSE, GoodText, 8, 2, 16)
       ELSE NominalStream(prompt)

\* the loops of runSuite from suite e on, every call answered by kind
RECURSIVE SuiteUnder(_, _)
SuiteUnder(e, kind) ==
  LET r == AfterResponse(e, executePrompt(BehaviourStream(kind, TEST_PROMPTS[e.pIdx])))
  IN  IF MoreCalls(r) THEN SuiteUnder(NextCall(r), kind) ELSE r

InitStore ==
  /\ now = 1
  /\ runs = <<>>
  /\ testCases = <<>>
  /\ suites = <<>>
  /\ endpointUp = TRUE
  /\ faults = 0
  /\ alive = TRUE
  /\ storeRawOutputs = FALSE
  /\ cacheBusting = FALSE
  /\ config = <<>>
  /\ test_runs = <<>>
  /\ test_details = <<>>
  /\ cur = <<>>
  /\ win = <<>>
  /\ dflags = <<>>
  /\ dstatus = "NOT_RUN"
  /\ arg = <<>>
  /\ ret = None

\* a runSuite that started at instant t, now or half a day ago, returns now
SuiteRuns(t, kind) ==
  /\ Len(runs) < MaxRows
  /\ LET e == SuiteUnder(NewSuite(t), kind)
         s == Summary(e, runs, now)
     IN  /\ runs' = insertRun(runs, RunOf(e, s), now)
         /\ testCases' = InsertTestCases(testCases, NewId(runs), e.testResults)
  /\ UNCHANGED <<now, suites, endpointUp, faults, alive, envVars, detectVars, submitVars>>

\* the clock advances by 7 days and a half
ClockAdvances(d) ==
  /\ now + d <= MaxNow
  /\ now' = now + d
  /\ UNCHANGED <<runs, testCases, suites, endpointUp, faults, alive, envVars, detectVars, submitVars>>

NextStore ==
  \/ \E t \in {now - 1, now}, kind \in Behaviours : SuiteRuns(t, kind)
  \/ \E d \in {15} : ClockAdvances(d)

SpecStore == InitStore /\ [][NextStore]_vars

-----------------------------------------------------------------------------
(* Submission endpoint: POST /api/submit                                    *)

\* JSON values as <<type, value>>; Malformed is a request body that is not JSON
JNum(n, d) == <<"number", Rat(n, d)>>
JStr(str) == <<"string", str>>
JBool(b) == <<"boolean", b>>
JArr(a) == <<"array", a>>
JObj(o) == <<"object", o>>
Malformed == <<"malformed", "">>

\* an entry of validation.error.errors: the path of the field and the code
Issue(path, code) == [path |-> path, code |-> code]

IssueIf(cond, path, code) == IF cond THEN {Issue(path, code)} ELSE {}

\* z.string() / z.string().optional() on o[key]
zString(o, key, path, required) ==
  IF key \notin DOMAIN o THEN IssueIf(required, path, "invalid_type")
  ELSE IssueIf(o[key][1] # "string", path, "invalid_type")

\* z.boolean() on o[key]
zBoolean(o, key, path) ==
  IF key \notin DOMAIN o THEN {Issue(path, "invalid_type")}
  ELSE IssueIf(o[key][1] # "boolean", path, "invalid_type")

\* z.number(), with .int(), .min(lo) and .max(hi) where given, on o[key];
\* every check of a number reports its own issue
zNumber(o, key, path, required, int, lo, hi) ==
  IF key \notin DOMAIN o THEN IssueIf(required, path, "invalid_type")
  ELSE IF o[key][1] # "number" THEN {Issue(path, "invalid_type")}
  ELSE LET x == o[key][2]
       IN  IssueIf(int /\ x[2] # 1, path, "invalid_type")
             \cup IssueIf(IsSome(lo) /\ RLt(x, Num(Val(lo))), path, "too_small")
             \cup IssueIf(IsSome(hi) /\ RGt(x, Num(Val(hi))), path, "too_big")

\* the object schema of test_details[k].metrics
zMetrics(o, path) ==
  IF "metrics" \notin DOMAIN o THEN {}
  ELSE IF o.metrics[1] # "object" THEN {Issue(path \o <<"metrics">>, "invalid_type")}
  ELSE UNION {zNumber(o.metrics[2], f, path \o <<"metrics">>, TRUE, FALSE, None, None) :
                f \in {"correctness", "completeness", "performance", "style", "edgeCases"}}

\* the object schema of an element of test_details
zDetail(d, k) ==
  LET path(f) == <<"test_details", k, f>>
  IN  IF d[1] # "object" THEN {Issue(path("."), "invalid_type")}
      ELSE zString(d[2], "test_id", path("test_id"), TRUE)
             \cup zString(d[2], "test_name", path("test_name"), TRUE)
             \cup zBoolean(d[2], "passed", path("passed"))
             \cup zNumber(d[2], "score", path("score"), FALSE, FALSE, Some(0), Some(100))
             \cup zNumber(d[2], "response_time_ms", path("response_time_ms"),
                          FALSE, FALSE, None, None)
             \cup zNumber(d[2], "output_quality", path("output_quality"),
                          FALSE, FALSE, Some(0), Some(100))
             \cup zMetrics(d[2], <<"test_details", k>>)
             \cup zString(d[2], "error_message", path("error_message"), FALSE)

zDetails(o) ==
  IF "test_details" \notin DOMAIN o THEN {}
  ELSE IF o.test_details[1] # "array" THEN {Issue(<<"test_details">>, "invalid_type")}
  ELSE UNION {zDetail(o.test_details[2][k], k) : k \in DOMAIN o.test_details[2]}

\* the issues TestSubmissionSchema finds in a JSON value
SchemaIssues(body) ==
  IF body[1] # "object" THEN {Issue(<<>>, "invalid_type")}
  ELSE LET o == body[2]
       IN  zString(o, "anonymous_user_id", <<"anonymous_user_id">>, TRUE)
             \cup zString(o, "claude_version", <<"claude_version">>, TRUE)
             \cup zNumber(o, "test_score", <<"test_score">>, TRUE, TRUE, Some(0), Some(5))
             \cup zNumber(o, "continuous_score", <<"continuous_score">>,
                          FALSE, FALSE, Some(0), Some(100))
             \cup zNumber(o, "total_tests", <<"total_tests">>, FALSE, TRUE, None, None)
             \cup zNumber(o, "ttft_ms", <<"ttft_ms">>, FALSE, FALSE, None, None)
             \cup zNumber(o, "tokens_per_second", <<"tokens_per_second">>,
                          FALSE, FALSE, None, None)
             \cup zNumber(o, "avg_output_length", <<"avg_output_length">>,
                          FALSE, FALSE, None, None)
             \cup zNumber(o, "error_rate", <<"error_rate">>, FALSE, FALSE, Some(0), Some(1))
             \cup zString(o, "region", <<"region">>, FALSE)
             \cup zDetails(o)

\* mutant: the schema puts no bounds on error_rate
safeParse_UnboundedErrorRate(body) ==
  LET issues == {i \in SchemaIssues(body) :
                   ~(i.path = <<"error_rate">> /\ i.code \in {"too_small", "too_big"})}
  IN  IF issues = {} THEN [success |-> TRUE, data |-> body[2]]
      ELSE [success |-> FALSE, errors |-> issues]

\* TestSubmissionSchema.safeParse(body)
safeParse(body) ==
  LET issues == SchemaIssues(body)
  IN  IF issues = {} THEN [success |-> TRUE, data |-> body[2]]
      ELSE [success |-> FALSE, errors |-> issues]

\* the row of test_runs the handler inserts for the parsed data
TestRunRow(id, data) ==
  [id |-> id,
   anonymous_user_id |-> data.anonymous_user_id[2],
   claude_version |-> data.claude_version[2],
   test_score |-> data.test_score[2],
   continuous_score |-> Prop(data, "continuous_score"),
   total_tests |-> IF "total_tests" \in DOMAIN data THEN data.total_tests[2] ELSE Num(5),
   ttft_ms |-> Prop(data, "ttft_ms"),
   tokens_per_second |-> Prop(data, "tokens_per_second"),
   avg_output_length |-> Prop(data, "avg_output_length"),
   error_rate |-> Prop(data, "error_rate"),
   region |-> Prop(data, "region")]

\* the rows of test_details the handler inserts: run_id and the detail
TestDetailRows(runId, data) ==
  IF "test_details" \notin DOMAIN data THEN <<>>
  ELSE [k \in DOMAIN data.test_details[2] |->
          [run_id |-> runId, detail |-> data.test_details[2][k][2]]]

Response(status, body) == Some([status |-> status, body |-> body])

MaxSubmissions == 2

\* what the database answers to the inserts of one request
DbOutcomes == {"ok", "runError", "detailError"}

\* the request bodies explored
GoodDetail == JObj([test_id |-> JStr("P1"), test_name |-> JStr("coding"), passed |-> JBool(TRUE)])

Field(key, choice) == IF IsSome(choice) THEN key :> Val(choice) ELSE <<>>

SubmitBodies ==
  {Malformed, JNum(3, 1)} \cup
  {JObj([claude_version |-> JStr("v")] @@ Field("anonymous_user_id", u)
          @@ Field("test_score", sc) @@ Field("error_rate", er) @@ Field("test_details", td)) :
     u \in {None, Some(JStr("u")), Some(JNum(7, 1))},
     sc \in {None, Some(JNum(5, 1)), Some(JNum(6, 1)), Some(JNum(5, 2))},
     er \in {None, Some(JNum(1, 1)), Some(JNum(3, 2))},
     td \in {None, Some(JArr(<<GoodDetail>>)),
             Some(JArr(<<GoodDetail, JObj(GoodDetail[2] @@ [score |-> JNum(101, 1)])>>)),
             Some(JArr(<<JObj([test_id |-> JStr("P1"), test_name |-> JStr("coding")])>>))}}

InitSubmit ==
  /\ now = 0
  /\ runs = <<>>
  /\ testCases = <<>>
  /\ suites = <<>>
  /\ endpointUp = TRUE
  /\ faults = 0
  /\ alive = TRUE
  /\ storeRawOutputs = FALSE
  /\ cacheBusting = FALSE
  /\ config = <<>>
  /\ test_runs = <<>>
  /\ test_details = <<>>
  /\ cur = <<>>
  /\ win = <<>>
  /\ dflags = <<>>
  /\ dstatus = "NOT_RUN"
  /\ arg = <<>>
  /\ ret = None

\* POST /api/submit with a request body, db being what the database answers
PostSubmit(body, db) ==
  /\ Len(test_runs) < MaxSubmissions
  /\ arg' = body
  /\ IF body[1] = "malformed"
     THEN /\ ret' = Response(500, [error |-> "Internal server error"])
          /\ UNCHANGED submitVars
     ELSE LET validation == safeParse(body)
              id == NewId(test_runs)
          IN  IF ~validation.success
              THEN /\ ret' = Response(400, [error |-> "Invalid input",
                                            details |-> validation.errors])
                   /\ UNCHANGED submitVars
              ELSE IF db = "runError"
              THEN /\ ret' = Response(500, [error |-> "Failed to save test run"])
                   /\ UNCHANGED submitVars
              ELSE /\ test_runs' = Append(test_runs, TestRunRow(id, validation.data))
                   /\ test_details' =
                        IF db = "detailError" THEN test_details
                        ELSE test_details \o TestDetailRows(id, validation.data)
                   /\ ret' = Response(200, [success |-> TRUE, run_id |-> id])
  /\ UNCHANGED <<systemVars, cur, win, dflags, dstatus>>

NextSubmit == \E body \in SubmitBodies, db \in DbOutcomes : PostSubmit(body, db)

SpecSubmit == InitSubmit /\ [][NextSubmit]_vars

-----------------------------------------------------------------------------
(* The detector on its own: detectRegressions and calculateStatus applied   *)
(* to a current run and to the means of a window of runs.                   *)

SomeOf(ns) == {Some(x) : x \in ns}

\* the metrics of the current run
CurInputs ==
  {[correctnessScore |-> Num(c), errorRate |-> e, tokensPerSecMedian |-> t,
    latencyP95 |-> l, ttftP95 |-> IF IsSome(l) THEN Some(Num(1)) ELSE None,
    outputTokensMedian |-> o] :
     c \in 0..NumCorrectnessPrompts,
     e \in {Zero, Rat(1, 10), Rat(1, 5)},
     t \in {None} \cup SomeOf({Num(4), Num(7)}),
     l \in {None} \cup SomeOf({Num(2), Num(4)}),
     o \in {None} \cup SomeOf({Num(3), Num(4)})}

\* the window has no run
EmptyWindow ==
  [correctness_score |-> None, ttft_median |-> None, ttft_p95 |-> None,
   latency_median |-> None, latency_p95 |-> None, tokens_per_sec_median |-> None,
   tokens_per_sec_p95 |-> None, output_tokens_median |-> None, error_rate |-> None]

\* the p95 of time to first token and of latency: none, equal, or a latency
\* four times the time to first token
P95Pairs == {<<None, None>>, <<Some(Num(1)), Some(Num(1))>>, <<Some(Num(1)), Some(Num(4))>>}

\* the window has runs: correctness_score and error_rate are NOT NULL
WinInputs ==
  {EmptyWindow} \cup
  {[correctness_score |-> Some(c), ttft_median |-> p[1], ttft_p95 |-> p[1],
    latency_median |-> p[2], latency_p95 |-> p[2], tokens_per_sec_median |-> t,
    tokens_per_sec_p95 |-> t, output_tokens_median |-> o, error_rate |-> Some(e)] :
     c \in {Zero, Rat(29, 10), Rat(7, 2), Num(4)},
     e \in {Zero, Rat(1, 10)},
     t \in {None} \cup SomeOf({Num(7), Num(8), Num(10)}),
     p \in P95Pairs,
     o \in {None} \cup SomeOf({Num(4), Num(5)})}

InitDetect ==
  /\ now = 0
  /\ runs = <<>>
  /\ testCases = <<>>
  /\ suites = <<>>
  /\ endpointUp = TRUE
  /\ faults = 0
  /\ alive = TRUE
  /\ storeRawOutputs = FALSE
  /\ cacheBusting = FALSE
  /\ config = <<>>
  /\ test_runs = <<>>
  /\ test_details = <<>>
  /\ cur \in CurInputs
  /\ win \in WinInputs
  /\ dflags = <<>>
  /\ dstatus = "NOT_RUN"
  /\ arg = <<>>
  /\ ret = None

Detect ==
  /\ dstatus = "NOT_RUN"
  /\ dflags' = detectRegressions(cur, SelectStats(win))
  /\ dstatus' = calculateStatus(dflags')
  /\ UNCHANGED <<cur, win, arg, ret, systemVars, submitVars>>

NextDetect == Detect

SpecDetect == InitDetect /\ [][NextDetect]_vars

-----------------------------------------------------------------------------
(* median and percentile on their own, applied to sorted samples            *)

MaxLen == 4
MaxValue == 4
MaxRamp == 40

IsSorted(f) == \A i, j \in DOMAIN f : i < j => f[i] <= f[j]

\* the ascending lists of 1..MaxLen values of 1..MaxValue, and the ramps
\* 1, 2, .., n up to MaxRamp
Samples ==
  UNION {{f \in [1..n -> 1..MaxValue] : IsSorted(f)} : n \in 1..MaxLen}
    \cup {[i \in 1..n |-> i] : n \in (MaxLen + 1)..MaxRamp}

InitStats ==
  /\ now = 0
  /\ runs = <<>>
  /\ testCases = <<>>
  /\ suites = <<>>
  /\ endpointUp = TRUE
  /\ faults = 0
  /\ alive = TRUE
  /\ storeRawOutputs = FALSE
  /\ cacheBusting = FALSE
  /\ config = <<>>
  /\ test_runs = <<>>
  /\ test_details = <<>>
  /\ cur = <<>>
  /\ win = <<>>
  /\ dflags = <<>>
  /\ dstatus = "NOT_RUN"
  /\ arg \in Samples
  /\ ret = None

\* this.median(arr) and this.percentile(arr, 95) on the sample
Stats ==
  /\ ret = None
  /\ LET arr == [i \in DOMAIN arg |-> Num(arg[i])]
     IN  ret' = Some([median |-> median(arr), p95 |-> percentile(arr, 95)])
  /\ UNCHANGED <<cur, win, dflags, dstatus, arg, systemVars, submitVars>>

NextStats == Stats

SpecStats == InitStats /\ [][NextStats]_vars

-----------------------------------------------------------------------------
(* executeWithRetry on its own, applied to the outcomes of its calls        *)

MaxRetries == 3

Outcomes == {"ok", "error", "throw"}

InitRetry ==
  /\ now = 0
  /\ runs = <<>>
  /\ testCases = <<>>
  /\ suites = <<>>
  /\ endpointUp = TRUE
  /\ faults = 0
  /\ alive = TRUE
  /\ storeRawOutputs = FALSE
  /\ cacheBusting = FALSE
  /\ config = <<>>
  /\ test_runs = <<>>
  /\ test_details = <<>>
  /\ cur = <<>>
  /\ win = <<>>
  /\ dflags = <<>>
  /\ dstatus = "NOT_RUN"
  /\ arg \in [outcomes : [1..(MaxRetries + 1) -> Outcomes], maxRetries : 0..MaxRetries]
  /\ ret = None

Retry ==
  /\ ret = None
  /\ ret' = Some(executeWithRetry(arg.outcomes, arg.maxRetries))
  /\ UNCHANGED <<cur, win, dflags, dstatus, arg, systemVars, submitVars>>

NextRetry == Retry

SpecRetry == InitRetry /\ [][NextRetry]_vars

-----------------------------------------------------------------------------
(* Properties *)

Has(flags, f) == \E i \in DOMAIN flags : flags[i] = f

Detected == dstatus # "NOT_RUN"

\* the baseline detectRegressions was given in the detector check
Baseline == SelectStats(win)

ZeroBaseline(b) == \A k \in DOMAIN b : b[k] = Zero

RECURSIVE SeqOfSet(_)
SeqOfSet(S) ==
  IF S = {} THEN <<>>
  ELSE LET x == CHOOSE y \in S : TRUE IN <<x>> \o SeqOfSet(S \ {x})

StatusOfCount(n) == IF n = 0 THEN "GREEN" ELSE IF n = 1 THEN "YELLOW" ELSE "RED"

Done(e) == e.pc = "done"
InFlight(e) == ~Ended(e)

HasError(r) == IsSome(r.response.error)

\* the prompt and replicate number of the k-th call of a suite, in catalog order
RECURSIVE CallOrder(_)
CallOrder(p) ==
  IF p = 0 THEN <<>>
  ELSE CallOrder(p - 1) \o
       [r \in 1..TEST_PROMPTS[p].replicates |-> <<TEST_PROMPTS[p].id, r>>]

\* C1: with a baseline whose every field is 0 (no prior run), detectRegressions
\* returns no flag and the status is GREEN, whatever the current metrics are.
C1_ColdStartGreen ==
  (Detected /\ win = EmptyWindow /\ ZeroBaseline(Baseline)) => (dflags = <<>> /\ dstatus = "GREEN")

\* C2: calculateStatus maps 0 flags to GREEN, 1 to YELLOW and 2 or more to RED
\* for every subset of the flag codes, and every run runSuite has persisted or
\* returned carries the status of its own flags.
C2_StatusFromFlags ==
  /\ \A S \in SUBSET FlagCodes :
       calculateStatus(SeqOfSet(S)) = StatusOfCount(Cardinality(S))
  /\ \A i \in DOMAIN runs : runs[i].status = StatusOfCount(Len(JSONparse(runs[i].flags)))
  /\ \A i \in DOMAIN suites :
       Done(suites[i]) =>
         Val(suites[i].result).status = StatusOfCount(Len(Val(suites[i].result).flags))

\* a persisted run with exactly one flag, and so YELLOW
C2_Witness ==
  \E i \in DOMAIN runs : Len(JSONparse(runs[i].flags)) = 1 /\ runs[i].status = "YELLOW"

\* C3: at most one suite execution is in progress at any time.
C3_SuitesSerialized ==
  Cardinality({i \in DOMAIN suites : InFlight(suites[i])}) <= 1

\* C4: a replicate whose endpoint call failed (an error result, or a throw) is
\* recorded with success = false and score = 0 and counted as an error; every
\* call made has exactly one result; a suite that has returned has one result
\* per prompt and replicate of the catalog, in catalog order, and its run is
\* persisted with error_rate = errors / replicates.
C4_FailedReplicateRecorded ==
  \A i \in DOMAIN suites :
    LET e == suites[i]
        rs == e.testResults
    IN  /\ \A k \in DOMAIN rs : HasError(rs[k]) => (~rs[k].success /\ rs[k].score = 0)
        /\ e.totalErrors = Cardinality({k \in DOMAIN rs : HasError(rs[k])})
        /\ Len(rs) = IF e.pc = "calling" THEN e.totalTests - 1 ELSE e.totalTests
        /\ Done(e) =>
             /\ Len(rs) = TotalReplicates
             /\ [k \in DOMAIN rs |-> <<rs[k].promptId, rs[k].replicateNumber>>]
                  = CallOrder(Len(TEST_PROMPTS))
             /\ \E j \in DOMAIN runs :
                  /\ runs[j].id = Val(e.result).runId
                  /\ runs[j].error_rate = Rat(e.totalErrors, TotalReplicates)
             /\ Cardinality({c \in DOMAIN testCases :
                               testCases[c].run_id = Val(e.result).runId})
                  = TotalReplicates

\* a suite has returned although one of its calls, not the last, had thrown
C4_Witness ==
  \E i \in DOMAIN suites :
    /\ Done(suites[i])
    /\ \E k \in 1..(TotalReplicates - 1) :
         /\ suites[i].testResults[k].response.error = Some("thrown")
         /\ ~HasError(suites[i].testResults[k + 1])
    /\ \E j \in DOMAIN runs :
         runs[j].id = Val(suites[i].result).runId /\ RGt(runs[j].error_rate, Zero)

\* C5: performance_regression_latency is raised exactly when the current p95
\* latency is defined, the window's mean latency_p95 is > 0 and the current
\* p95 latency is more than twice that mean.
C5_LatencyRule ==
  Detected =>
    (Has(dflags, "performance_regression_latency") <=>
       /\ IsSome(cur.latencyP95)
       /\ RGt(OrZero(win.latency_p95), Zero)
       /\ RGt(Val(cur.latencyP95), RMul(Num(2), OrZero(win.latency_p95))))

\* C6: quality_regression is raised exactly when the baseline mean correctness
\* is > 0 and the current score is <= mean - 2: 1 against 3.5 raises it,
\* 1 against 2.9 does not, and a mean of 0 never does.
C6_QualityRule ==
  /\ Detected =>
       (Has(dflags, "quality_regression") <=>
          LET a == Baseline.avgCorrectness
              c == cur.correctnessScore[1]
          IN  a[1] > 0 /\ c * a[2] <= a[1] - 2 * a[2])
  /\ (Detected /\ cur.correctnessScore = Num(1) /\ win.correctness_score = Some(Rat(7, 2)))
       => Has(dflags, "quality_regression")
  /\ (Detected /\ cur.correctnessScore = Num(1) /\ win.correctness_score = Some(Rat(29, 10)))
       => ~Has(dflags, "quality_regression")
  /\ (Detected /\ Baseline.avgCorrectness = Zero) => ~Has(dflags, "quality_regression")

\* score 1 against a mean of 3.5: raised
C6_Witness ==
  /\ Detected
  /\ cur.correctnessScore = Num(1)
  /\ win.correctness_score = Some(Rat(7, 2))
  /\ Has(dflags, "quality_regression")

\* C7: performance_regression_tps is raised exactly when the current median
\* tokens/sec is defined, the baseline mean is > 0 and current < mean / 2:
\* 4 against 10 raises it, 4 against 7 does not, 4 against 8 does not.
C7_TpsRule ==
  /\ Detected =>
       (Has(dflags, "performance_regression_tps") <=>
          /\ IsSome(cur.tokensPerSecMedian)
          /\ LET a == Baseline.avgTokensPerSecMedian
                 c == Val(cur.tokensPerSecMedian)
             IN  a[1] > 0 /\ 2 * c[1] * a[2] < a[1] * c[2])
  /\ (Detected /\ cur.tokensPerSecMedian = Some(Num(4)))
       => /\ win.tokens_per_sec_median = Some(Num(10))
               => Has(dflags, "performance_regression_tps")
          /\ win.tokens_per_sec_median \in {Some(Num(7)), Some(Num(8))}
               => ~Has(dflags, "performance_regression_tps")

\* median 4 tokens/sec against a mean of 10: raised
C7_Witness ==
  /\ Detected
  /\ cur.tokensPerSecMedian = Some(Num(4))
  /\ win.tokens_per_sec_median = Some(Num(10))
  /\ Has(dflags, "performance_regression_tps")

C9_ErrorRateRule ==
  Detected =>
    (Has(dflags, "error_rate_increase") <=>
       LET a == Baseline.avgErrorRate
           c == cur.errorRate
       IN  10 * c[1] * a[2] > (10 * a[1] + a[2]) * c[2])

\* the error rate rule raises its flag in a call where the four other rules
\* have raised theirs
C9_Witness ==
  /\ Detected
  /\ Len(dflags) = 5
  /\ dflags[5] = "error_rate_increase"

\* C10: when every current metric equals the corresponding mean of the window,
\* detectRegressions returns no flag and the status is GREEN.
C10_EqualMetricsNoFlags ==
  ( /\ Detected
    /\ cur.correctnessScore = OrZero(win.correctness_score)
    /\ cur.tokensPerSecMedian = win.tokens_per_sec_median
    /\ cur.latencyP95 = win.latency_p95
    /\ cur.ttftP95 = win.ttft_p95
    /\ cur.outputTokensMedian = win.output_tokens_median
    /\ cur.errorRate = OrZero(win.error_rate) )
  => (dflags = <<>> /\ dstatus = "GREEN")

\* the run row a suite that has returned has persisted
RunRowOf(e) == CHOOSE r \in {runs[j] : j \in DOMAIN runs} : r.id = Val(e.result).runId

SetMax(S) == CHOOSE x \in S : \A y \in S : y <= x

\* the best score among the replicates of prompt id in results rs
BestOfN(rs, id) == SetMax({rs[k].score : k \in {j \in DOMAIN rs : rs[j].promptId = id}})

\* the sum of the best scores of the prompts ids
RECURSIVE SumBest(_, _)
SumBest(rs, ids) ==
  IF ids = {} THEN 0
  ELSE LET id == CHOOSE x \in ids : TRUE IN BestOfN(rs, id) + SumBest(rs, ids \ {id})

CorrectnessPromptIds ==
  {TEST_PROMPTS[i].id : i \in {j \in DOMAIN TEST_PROMPTS : TEST_PROMPTS[j].type = "correctness"}}

\* a result of prompt id with the given score, as calculateCorrectnessScore reads it
ScoreOnly(id, score) == [promptId |-> id, score |-> score]

\* C11: correctness_score is the sum over the correctness prompts of the best
\* score among the prompt's replicates ([1,0] gives 1, [0,0] gives 0, [1,1]
\* gives 1); performance replicates never contribute; the score is an integer
\* between 0 and the number of correctness prompts.
C11_BestOfN ==
  /\ calculateCorrectnessScore(<<ScoreOnly("P1", 1), ScoreOnly("P1", 0)>>) = 1
  /\ calculateCorrectnessScore(<<ScoreOnly("P1", 0), ScoreOnly("P1", 0)>>) = 0
  /\ calculateCorrectnessScore(<<ScoreOnly("P1", 1), ScoreOnly("P1", 1)>>) = 1
  /\ calculateCorrectnessScore(<<ScoreOnly("P4", 1), ScoreOnly("P1", 0)>>) = 0
  /\ \A i \in DOMAIN suites :
       Done(suites[i]) =>
         LET rs == suites[i].testResults
             score == Val(suites[i].result).correctnessScore
         IN  /\ score = SumBest(rs, CorrectnessPromptIds)
             /\ score \in 0..NumCorrectnessPrompts
             /\ RunRowOf(suites[i]).correctness_score = Num(score)

\* a suite has returned the full score although a correctness replicate was
\* answered wrongly
C11_Witness ==
  \E i \in DOMAIN suites :
    /\ Done(suites[i])
    /\ Val(suites[i].result).correctnessScore = NumCorrectnessPrompts
    /\ \E k \in DOMAIN suites[i].testResults :
         LET r == suites[i].testResults[k]
         IN  r.promptId \in CorrectnessPromptIds /\ ~HasError(r) /\ r.score = 0

PerformanceColumns ==
  {"ttft_median", "ttft_p95", "latency_median", "latency_p95",
   "tokens_per_sec_median", "tokens_per_sec_p95", "output_tokens_median"}

\* every replicate of the performance prompt ended with an endpoint error
NoUsableSample(rs) ==
  \A k \in DOMAIN rs : rs[k].promptId = "P4" => HasError(rs[k])

\* C13: when the performance prompt yields no usable sample in a run, all
\* seven performance fields of that run are absent.
C13_NoSampleNoFields ==
  \A i \in DOMAIN suites :
    (Done(suites[i]) /\ NoUsableSample(suites[i].testResults))
      => \A c \in PerformanceColumns : RunRowOf(suites[i])[c] = None

\* C14: a result executePrompt returns on a failure has error set, an empty
\* output, no ttft and zeroed metrics: totalLatency = 0, outputTokens = 0,
\* tokensPerSec = 0.
C14_ErrorResultZeroed ==
  \A i \in DOMAIN suites :
    \A k \in DOMAIN suites[i].testResults :
      LET response == suites[i].testResults[k].response
      IN  response.error = Some("error") =>
            /\ response.output = EmptyText
            /\ response.metrics.ttft = None
            /\ response.metrics.totalLatency = Zero
            /\ response.metrics.outputTokens = 0
            /\ response.metrics.tokensPerSec = Zero

\* a step in which runSuite rejects
SuiteFails ==
  \E i \in DOMAIN suites : suites[i].pc # "failed" /\ suites'[i].pc = "failed"

\* C15: when runSuite rejects (a persistence error), the failure is caught:
\* the process goes on, the step starts no other suite (no retry), and the
\* cron task of the current time of day can still fire.
C15_ScheduleContinues ==
  /\ [](alive)
  /\ [][SuiteFails => Len(suites') = Len(suites)]_vars
  /\ []((\E i \in DOMAIN suites : suites[i].pc = "failed")
         => (Len(suites) < MaxStarts => ENABLED CronFire(TimeOf(now))))

\* a suite has failed and a later firing has started another one
C15_Witness ==
  /\ alive
  /\ \E i, j \in DOMAIN suites :
       /\ suites[i].pc = "failed"
       /\ suites[j].timestamp > Val(suites[i].endedAt)

\* the runs persisted before run id whose timestamp is within the 7 days
\* that end at instant t
TrailingRuns(id, t) ==
  SelectSeq(runs, LAMBDA r : /\ r.id < id
                             /\ t - NewDate(r.timestamp) <= WindowDays * HalfDaysPerDay)

\* C17: the baseline runSuite passes to detectRegressions is, field by field,
\* the mean over exactly the runs persisted before it whose timestamp lies
\* within the trailing 7 days, and 0 when there is none.
C17_BaselineWindow ==
  \A i \in DOMAIN suites :
    Done(suites[i]) =>
      Val(suites[i].result).sevenDayStats
        = SelectStats(MeansOf(TrailingRuns(Val(suites[i].result).runId,
                                           Val(suites[i].endedAt))))

\* the fields the store adds to a run it returns
StoreFields == {"id", "created_at"}

\* C18: getRunById(insertRun(r)) has the fields of r with the values of r
\* (an absent field stays absent, the flags are the same), and no field that
\* r did not have besides the id and the creation date.
C18_RunRoundTrip ==
  \A i \in DOMAIN suites :
    Done(suites[i]) =>
      LET r == RunOf(suites[i], Val(suites[i].result))
          got == getRunById(runs, Val(suites[i].result).runId)
      IN  /\ IsSome(got)
          /\ \A k \in DOMAIN r : Prop(Val(got), k) = r[k]
          /\ \A k \in PerformanceColumns : Prop(Val(got), k) = Prop(r, k)
          /\ DOMAIN Val(got) \subseteq (DOMAIN r \cup PerformanceColumns \cup StoreFields)

IsPrefix(a, b) == Len(a) <= Len(b) /\ SubSeq(b, 1, Len(a)) = a

\* C19: runs and test cases are append-only: every step leaves each row of
\* the two tables in place with its values.
C19_AppendOnly ==
  [][IsPrefix(runs, runs') /\ IsPrefix(testCases, testCases')]_vars

\* two runs and their test cases are in the store after a write of config
C19_Witness ==
  /\ Len(runs) = 2
  /\ Len(testCases) = 2 * TotalReplicates
  /\ getConfig(config, "cache_busting") = Some("true")

\* the result of suite e its test case c was made from
ResultOf(e, c) ==
  CHOOSE r \in {e.testResults[k] : k \in DOMAIN e.testResults} :
    r.promptId = c.prompt_id /\ r.replicateNumber = c.replicate_number

\* C20: a persisted test case carries raw_output exactly when the runner's
\* storeRawOutputs flag is set, and then it is the output text of the
\* replicate's call; output_hash is stored either way.
C20_RawOutputOnlyIfFlag ==
  /\ \A c \in DOMAIN testCases : IsSome(testCases[c].raw_output) <=> storeRawOutputs
  /\ \A i \in DOMAIN suites :
       Done(suites[i]) =>
         \A c \in DOMAIN testCases :
           testCases[c].run_id = Val(suites[i].result).runId =>
             LET response == ResultOf(suites[i], testCases[c]).response
             IN  /\ testCases[c].output_hash = response.outputHash
                 /\ storeRawOutputs => testCases[c].raw_output = Some(response.output)

\* the flag is set and the text of a successful call is stored
C20_Witness ==
  /\ storeRawOutputs
  /\ \E c \in DOMAIN testCases :
       testCases[c].raw_output = Some(GoodText) /\ testCases[c].success

\* the least k with 100 k >= 95 n: ceil(0.95 n)
Ceil95(n) == CHOOSE k \in 0..n : 100 * k >= 95 * n /\ 100 * (k - 1) < 95 * n

\* C12: on a non-empty ascending sample, median is the middle element for an
\* odd length and the mean of the two middle elements for an even one, and
\* the 95th percentile is the element at index min(ceil(0.95 len) - 1,
\* len - 1), a valid index; for [1,2,3,4] the median is 2.5 and p95 is 4.
C12_MedianAndP95 ==
  IsSome(ret) =>
    LET n == Len(arg)
        index == Min(Ceil95(n) - 1, n - 1)
    IN  /\ n % 2 = 1 => Val(ret).median = Some(Num(arg[(n + 1) \div 2]))
        /\ n % 2 = 0 => Val(ret).median = Some(Rat(arg[n \div 2] + arg[n \div 2 + 1], 2))
        /\ index \in 0..(n - 1)
        /\ Val(ret).p95 = Some(Num(arg[index + 1]))
        /\ arg = <<1, 2, 3, 4>>
             => Val(ret).median = Some(Rat(5, 2)) /\ Val(ret).p95 = Some(Num(4))

\* the sample [1,2,3,4]: median 2.5 and p95 4
C12_Witness ==
  /\ arg = <<1, 2, 3, 4>>
  /\ IsSome(ret)
  /\ Val(ret).median = Some(Rat(5, 2))
  /\ Val(ret).p95 = Some(Num(4))

\* the first attempt (from 1) of the maxRetries + 1 that ends without error
FirstOk(outcomes, maxRetries) ==
  LET oks == {k \in 1..(maxRetries + 1) : outcomes[k] = "ok"}
  IN  IF oks = {} THEN None ELSE Some(CHOOSE k \in oks : \A j \in oks : k <= j)

\* the sleeps after the failed attempts 0 .. n - 1: 1, 2, 4, .. seconds
Backoff(n) == [i \in 1..n |-> Pow2(i - 1)]

\* C16: executeWithRetry makes at most maxRetries + 1 calls, returns the first
\* error-free response without a further call, sleeps 2^i seconds after the
\* failed attempt i < maxRetries and not after the last attempt, and throws
\* the last error when every attempt failed; with maxRetries = 0 it makes one
\* call and does not sleep.
C16_BoundedRetry ==
  IsSome(ret) =>
    LET r == Val(ret)
        m == arg.maxRetries
        first == FirstOk(arg.outcomes, m)
    IN  /\ r.calls <= m + 1
        /\ IsSome(first) =>
             /\ r.returned = first
             /\ r.thrown = None
             /\ r.calls = Val(first)
             /\ r.waits = Backoff(Val(first) - 1)
        /\ ~IsSome(first) =>
             /\ r.returned = None
             /\ r.thrown = Some(<<arg.outcomes[m + 1], m + 1>>)
             /\ r.calls = m + 1
             /\ r.waits = Backoff(m)
        /\ m = 0 => r.calls = 1 /\ r.waits = <<>>

\* every one of four attempts has failed: three sleeps of 1, 2 and 4 seconds,
\* and the error of the fourth is thrown
C16_Witness ==
  /\ IsSome(ret)
  /\ arg.maxRetries = MaxRetries
  /\ Val(ret).calls = MaxRetries + 1
  /\ Val(ret).waits = Backoff(MaxRetries)
  /\ IsSome(Val(ret).thrown)

-----------------------------------------------------------------------------
(* Claims C21..C30 *)

\* the suite that the step starts, if it starts one
Started == IF Len(suites') = Len(suites) + 1 THEN {suites'[Len(suites')]} ELSE {}

\* C21: a suite started while the config table holds cache_busting = 'true'
\* sends its calls with a nonce appended (and one started while it holds
\* 'false' sends none).  The runner reads process.env only: violated.
C21_ConfigTakesEffect ==
  [][\A e \in Started :
       /\ getConfig(config, "cache_busting") = Some("true")
            => IsSome(Dispatched(e).nonce)
       /\ getConfig(config, "cache_busting") = Some("false")
            => ~IsSome(Dispatched(e).nonce)]_vars

\* the results of a suite that the claim lets count as refusals: correctness
\* replicates that did not score 1 and whose output holds a refusal phrase
RefusalResults(e) ==
  {k \in DOMAIN e.testResults :
     LET r == e.testResults[k]
     IN  /\ PromptById(r.promptId).type = "correctness"
         /\ r.score # 1
         /\ \/ Includes(r.response.output, "I cannot")
            \/ Includes(r.response.output, "I can't")}

\* C28: a suite counts as refusals only correctness replicates that did not
\* score 1 and whose output contains a refusal phrase; a replicate that scored
\* 1 is never counted.  Violated by a correct output that contains "I can't".
C28_RefusalOnlyIfFailed ==
  \A i \in DOMAIN suites : suites[i].totalRefusals <= Cardinality(RefusalResults(suites[i]))

\* every entry of flags is one of the five codes, and no code is repeated
WellFormedFlags(flags) ==
  /\ \A k \in DOMAIN flags : flags[k] \in FlagCodes
  /\ \A j, k \in DOMAIN flags : flags[j] = flags[k] => j = k

\* C24: the flags of every run persisted or returned by runSuite are among the
\* five fixed codes, and no code appears more than once.
C24_FlagsWellFormed ==
  /\ \A i \in DOMAIN runs : WellFormedFlags(JSONparse(runs[i].flags))
  /\ \A i \in DOMAIN suites :
       Done(suites[i]) => WellFormedFlags(Val(suites[i].result).flags)

\* a run persisted and returned with two flags
C24_Witness ==
  \E i \in DOMAIN suites :
    /\ Done(suites[i])
    /\ Len(Val(suites[i].result).flags) = 2
    /\ \E j \in DOMAIN runs :
         /\ runs[j].id = Val(suites[i].result).runId
         /\ Len(JSONparse(runs[j].flags)) = 2

\* the rows of test_cases of run id
CasesOf(id) == {c \in DOMAIN testCases : testCases[c].run_id = id}

\* the pairs prompt x replicate of the catalog
CatalogPairs ==
  {pr \in PromptIds \X (1..TotalReplicates) : pr[2] <= PromptById(pr[1]).replicates}

\* a suite returns in this step
Returns(i) == suites[i].pc # "done" /\ suites'[i].pc = "done"

\* C26: when runSuite returns, the store holds exactly one run row with the
\* returned runId, added by that return, and exactly one test case per
\* prompt x replicate of the catalog with that run id, the pairs
\* (prompt_id, replicate_number) being distinct.
C26_OneRunOneCasePerReplicate ==
  /\ [](\A i \in DOMAIN suites :
          Done(suites[i]) =>
            LET id == Val(suites[i].result).runId
            IN  /\ Cardinality({j \in DOMAIN runs : runs[j].id = id}) = 1
                /\ Cardinality(CasesOf(id)) = TotalReplicates
                /\ {<<testCases[c].prompt_id, testCases[c].replicate_number>> : c \in CasesOf(id)}
                     = CatalogPairs
                /\ \A j \in DOMAIN suites :
                     (Done(suites[j]) /\ Val(suites[j].result).runId = id) => j = i)
  /\ [][\A i \in DOMAIN suites :
          Returns(i) =>
            /\ Len(runs') = Len(runs) + 1
            /\ runs'[Len(runs')].id = Val(suites'[i].result).runId
            /\ Len(testCases') = Len(testCases) + TotalReplicates]_vars

\* a suite with a failed replicate has returned, and a second one after it
C26_Witness ==
  \E i, j \in DOMAIN suites :
    /\ i # j
    /\ Done(suites[i]) /\ Done(suites[j])
    /\ \E k \in DOMAIN suites[i].testResults : HasError(suites[i].testResults[k])
    /\ Len(testCases) = 2 * TotalReplicates

\* C27: every persisted test case's run_id is the id of exactly one persisted
\* run, also after a persistence failure and while two suites run at once; a
\* step that inserts no run row inserts no test case.
C27_CasesReferToOneRun ==
  /\ [](\A c \in DOMAIN testCases :
          Cardinality({j \in DOMAIN runs : runs[j].id = testCases[c].run_id}) = 1)
  /\ [][Len(runs') = Len(runs) => testCases' = testCases]_vars

\* a suite has failed after its run row and some of its test cases were
\* written, while another suite is in flight
C27_Witness ==
  \E i, j \in DOMAIN suites :
    /\ suites[i].pc = "failed"
    /\ InFlight(suites[j])
    /\ Len(runs) = 1
    /\ Len(testCases) \in 1..(TotalReplicates - 1)

\* 0 <= r <= 1
InUnit(r) == RLe(Zero, r) /\ RLe(r, Num(1))

\* C29: error_rate and refusal_rate of every run lie in [0,1]: a replicate is
\* counted at most once as an error and at most once as a refusal, never as
\* both, and both counts are divided by the number of replicates executed.
C29_RatesInUnit ==
  /\ \A i \in DOMAIN suites :
       LET e == suites[i]
           rs == e.testResults
           errors == {k \in DOMAIN rs : HasError(rs[k])}
       IN  /\ e.totalErrors = Cardinality(errors)
           /\ e.totalRefusals <= Cardinality(DOMAIN rs \ errors)
           /\ e.totalErrors + e.totalRefusals <= Len(rs)
           /\ Done(e) =>
                /\ Val(e.result).errorRate = Rat(e.totalErrors, Len(rs))
                /\ Val(e.result).refusalRate = Rat(e.totalRefusals, Len(rs))
                /\ RunRowOf(e).error_rate = Val(e.result).errorRate
                /\ RunRowOf(e).refusal_rate = Val(e.result).refusalRate
  /\ \A j \in DOMAIN runs : InUnit(runs[j].error_rate) /\ InUnit(runs[j].refusal_rate)

\* a persisted run with one refusal among its replicates
C29_Witness ==
  \E i \in DOMAIN suites :
    /\ Done(suites[i])
    /\ suites[i].totalRefusals = 1
    /\ RunRowOf(suites[i]).refusal_rate = Rat(1, TotalReplicates)

\* the position in CallOrder of the call a suite is at
CallIndex(e) == SumReplicates(e.pIdx - 1) + e.rep

\* suite i issues its next endpoint call in this step
IssuesCall(i) == suites'[i].pc = "calling" /\ CallIndex(suites'[i]) # CallIndex(suites[i])

InstantOf(row) == NewDate(row.timestamp)

\* C23: getRecentRuns(limit) returns at most limit runs, the most recent ones,
\* ordered by timestamp descending; the status endpoint answers with the
\* status, timestamp, correctness score, flags and id of a persisted run of
\* the greatest timestamp (and with UNKNOWN when there is no run).
C23_RecentRunsLatestFirst ==
  /\ \A limit \in 0..MaxLimit :
       \A rs \in getRecentRuns(runs, limit) :
         /\ Len(rs) <= limit
         /\ \A a, b \in DOMAIN rs : a < b => rs[a].timestamp >= rs[b].timestamp
         /\ \A a \in DOMAIN rs : \E j \in DOMAIN runs : rs[a] = mapRun(runs[j])
         /\ \A a, b \in DOMAIN rs : rs[a].id = rs[b].id => a = b
         /\ \A j \in DOMAIN runs :
              \/ \E a \in DOMAIN rs : rs[a].id = runs[j].id
              \/ /\ Len(rs) = limit
                 /\ \A a \in DOMAIN rs : rs[a].timestamp >= InstantOf(runs[j])
  /\ GetApiStatus(runs) # {}
  /\ \A body \in GetApiStatus(runs) :
       IF runs = <<>> THEN body.status = "UNKNOWN" /\ body.lastRun = None
       ELSE \E j \in DOMAIN runs :
              /\ \A k \in DOMAIN runs : InstantOf(runs[j]) >= InstantOf(runs[k])
              /\ body = [status |-> runs[j].status,
                         lastRun |-> Some(InstantOf(runs[j])),
                         correctnessScore |-> runs[j].correctness_score,
                         flags |-> JSONparse(runs[j].flags),
                         runId |-> runs[j].id]

\* the run persisted first started after the two persisted later, which
\* differ from it in status, and the status endpoint answers with it
C23_Witness ==
  /\ Len(runs) = 3
  /\ InstantOf(runs[1]) > InstantOf(runs[2]) /\ InstantOf(runs[1]) > InstantOf(runs[3])
  /\ runs[1].status # runs[3].status
  /\ \A body \in GetApiStatus(runs) : body.runId = 1 /\ body.status = runs[1].status

\* the performance means of getSevenDayStats and the columns they average
StatColumns ==
  [avgTtftMedian |-> "ttft_median", avgTtftP95 |-> "ttft_p95",
   avgTokensPerSecMedian |-> "tokens_per_sec_median",
   avgTokensPerSecP95 |-> "tokens_per_sec_p95",
   avgOutputTokens |-> "output_tokens_median"]

\* the sum of column c over the rows that have it
RECURSIVE SumPresent(_, _)
SumPresent(rows, c) ==
  IF rows = <<>> THEN Zero
  ELSE IF IsSome(Head(rows)[c]) THEN RAdd(Val(Head(rows)[c]), SumPresent(Tail(rows), c))
  ELSE SumPresent(Tail(rows), c)

\* C30: each performance mean of the baseline is taken over the runs of the
\* window that have the field, and is 0 only when none has it; persisting a
\* run without the field leaves the mean unchanged.
C30_AbsentFieldsIgnored ==
  /\ [](\A m \in DOMAIN StatColumns :
          LET c == StatColumns[m]
              rows == SelectSeq(WindowRows(runs, now), LAMBDA r : IsSome(r[c]))
              mean == getSevenDayStats(runs, now)[m]
          IN  /\ rows = <<>> <=> mean = Zero
              /\ rows # <<>> => mean = RDivInt(SumPresent(rows, c), Len(rows)))
  /\ [][\A m \in DOMAIN StatColumns :
          (Len(runs') = Len(runs) + 1 /\ now' = now
             /\ ~IsSome(runs'[Len(runs')][StatColumns[m]]))
            => getSevenDayStats(runs', now)[m] = getSevenDayStats(runs, now)[m]]_vars

\* a run without ttft_median has been persisted after two runs of different
\* ttft_median, all three within the window, and the mean is that of the two
C30_Witness ==
  /\ Len(runs) = 3
  /\ Len(WindowRows(runs, now)) = 3
  /\ IsSome(runs[1].ttft_median) /\ IsSome(runs[2].ttft_median)
  /\ runs[1].ttft_median # runs[2].ttft_median
  /\ ~IsSome(runs[3].ttft_median)
  /\ getSevenDayStats(runs, now).avgTtftMedian
       = RDivInt(RAdd(Val(runs[1].ttft_median), Val(runs[2].ttft_median)), 2)

\* o[key] is a JSON string / a JSON number within lo..hi
HasString(o, key) == key \in DOMAIN o /\ o[key][1] = "string"
HasNumberIn(o, key, lo, hi) ==
  /\ key \in DOMAIN o
  /\ o[key][1] = "number"
  /\ RLe(Num(lo), o[key][2]) /\ RLe(o[key][2], Num(hi))

\* a test detail that misses a required field, has one of the wrong type, or
\* a score outside 0..100
BadDetail(d) ==
  \/ d[1] # "object"
  \/ /\ d[1] = "object"
     /\ \/ ~HasString(d[2], "test_id")
        \/ ~HasString(d[2], "test_name")
        \/ ~("passed" \in DOMAIN d[2] /\ d[2].passed[1] = "boolean")
        \/ "score" \in DOMAIN d[2] /\ ~HasNumberIn(d[2], "score", 0, 100)

\* the JSON body violates the schema in one of the ways the claim names
ViolatesSchema(body) ==
  /\ body[1] # "malformed"
  /\ \/ body[1] # "object"
     \/ /\ body[1] = "object"
        /\ LET o == body[2]
           IN  \/ ~HasString(o, "anonymous_user_id")
               \/ ~HasString(o, "claude_version")
               \/ ~HasNumberIn(o, "test_score", 0, 5)
               \/ "test_score" \in DOMAIN o /\ o.test_score[1] = "number"
                    /\ o.test_score[2][2] # 1
               \/ "error_rate" \in DOMAIN o /\ ~HasNumberIn(o, "error_rate", 0, 1)
               \/ /\ "test_details" \in DOMAIN o
                  /\ \/ o.test_details[1] # "array"
                     \/ /\ o.test_details[1] = "array"
                        /\ \E k \in DOMAIN o.test_details[2] : BadDetail(o.test_details[2][k])

\* C22: a submission that violates the schema is answered with HTTP 400 and
\* field-level error details, and the tables test_runs and test_details are
\* left as they were.
C22_InvalidSubmissionRejected ==
  [][ViolatesSchema(arg') =>
       /\ Val(ret').status = 400
       /\ Val(ret').body.details # {}
       /\ \A i \in Val(ret').body.details : i.code \in {"invalid_type", "too_small", "too_big"}
       /\ test_runs' = test_runs
       /\ test_details' = test_details]_vars

\* after an accepted submission with a detail, a submission whose error_rate
\* is 1.5 has been rejected and both tables are as the first one left them
C22_Witness ==
  /\ Len(test_runs) = 1 /\ Len(test_details) = 1
  /\ arg[1] = "object" /\ "error_rate" \in DOMAIN arg[2]
  /\ arg[2].error_rate = JNum(3, 2)
  /\ ret = Response(400, [error |-> "Invalid input",
                          details |-> {Issue(<<"error_rate">>, "too_big")}])

====
